---- MODULE Spec2Model ----
(***************************************************************************)
(* A model of the batch converters image_to_webp.py and gif_to_webp.py:    *)
(* the file finder, the animation detector, the frame extraction loop,     *)
(* the colour-mode choice, the two encoder calls, the scoped image handle  *)
(* and the batch loop of main with its counters and the deletion of        *)
(* originals.  One run of main is one behaviour.                           *)
(***************************************************************************)
EXTENDS Integers, Sequences, FiniteSets, TLC

\* ------------------------------------------------------------------ bounds
\* Most files a scanned directory tree holds.
MaxFiles == 2
\* Most frames a decoded container holds.
MaxFrames == 3

\* --------------------------------------------------------------- universe
\* The paths a scanned tree may hold, relative to the input directory.
Path(d, s, x) == [dir |-> d, stem |-> s, suffix |-> x]

AllPaths ==
    { Path(".", "a", ".gif"), Path(".", "a", ".png"), Path(".", "b", ".jpg"),
      Path("sub", "a", ".GIF") }


\* Values a container may give for a frame's duration and for its loop count.
DurChoices == {150}
LoopChoices == {2}

\* Pixel modes the decoder reports for each container format.
ModesOf(suffix) ==
    CASE suffix \in {".gif", ".GIF"} -> {"P", "L"}
      [] suffix = ".png" -> {"RGB", "RGBA", "LA", "P"}
      [] OTHER -> {"RGB", "L"}

Programs == {"image_to_webp", "gif_to_webp"}

VARIABLES
    args,           \* the program that runs, preserve_animation, delete_original
    fs,             \* the input files that exist
    outputs,        \* the output directory: file name -> content
    image_files,    \* the list captured at start
    pc,             \* the position of main / of the conversion in progress
    idx,            \* index in image_files of the file being handled
    img,            \* the handle of the conversion in progress
    open_handles,   \* indices of the files whose handle is open
    is_animated,    \* local of the conversion
    frames,         \* local of the conversion
    durations,      \* local of the conversion
    exc,            \* the exception in flight, or "none"
    encoded,        \* the encoder calls of the conversion in progress
    counts,         \* success_count, error_count, animated_count, static_count
    attempts,       \* history: the indices handed to the converter, in order
    succeeded,      \* history: indices whose conversion returned
    failed,         \* history: indices whose conversion raised
    deleted,        \* history: indices whose original was unlinked
    warnings,       \* history: indices whose unlink failed
    out_before      \* history: the output directory when the conversion began

vars == << args, fs, outputs, image_files, pc, idx, img, open_handles,
           is_animated, frames, durations, exc, encoded, counts, attempts,
           succeeded, failed, deleted, warnings, out_before >>

\* ------------------------------------------------------------ file finder
\* str.lower() on the suffixes of the universe.
Lower(s) == IF s = ".GIF" THEN ".gif" ELSE s

\* The glob patterns of each type, as the suffix each "*<suffix>" matches.
extensions(file_type) ==
    CASE file_type = "gif" -> {".gif", ".GIF"}
      [] file_type = "jpg" -> {".jpg", ".JPG", ".jpeg", ".JPEG"}
      [] file_type = "png" -> {".png", ".PNG"}
      [] OTHER -> {".gif", ".GIF", ".jpg", ".JPG", ".jpeg", ".JPEG",
                   ".png", ".PNG"}

\* glob(ext) sees the directory itself, rglob(ext) the whole tree.
Glob(files, ext, recursive) ==
    { p \in files : p.suffix = ext /\ (recursive \/ p.dir = ".") }

Name(p) == p.stem \o p.suffix

\* The parts of a path below the input directory.
Parts(p) == IF p.dir = "." THEN << Name(p) >> ELSE << p.dir, Name(p) >>

\* Code-point order of the path parts of the universe.
PartRank(s) ==
    CASE s = "a.GIF" -> 1
      [] s = "a.gif" -> 2
      [] s = "a.png" -> 3
      [] s = "b.jpg" -> 4
      [] OTHER -> 5

\* Path.__lt__: the parts compared as tuples.
RECURSIVE SeqLess(_, _)
SeqLess(s, t) ==
    IF t = << >> THEN FALSE
    ELSE IF s = << >> THEN TRUE
    ELSE IF PartRank(Head(s)) # PartRank(Head(t))
         THEN PartRank(Head(s)) < PartRank(Head(t))
         ELSE SeqLess(Tail(s), Tail(t))

PathLess(p, q) == SeqLess(Parts(p), Parts(q))

\* sorted(S)
RECURSIVE Sorted(_)
Sorted(S) ==
    IF S = {} THEN << >>
    ELSE LET m == CHOOSE p \in S : \A q \in S \ {p} : PathLess(p, q)
         IN << m >> \o Sorted(S \ {m})

find_image_files(files, file_type, recursive) ==
    Sorted(UNION { Glob(files, ext, recursive) : ext \in extensions(file_type) })

find_gif_files(files, recursive) ==
    Sorted(Glob(files, ".gif", recursive) \cup Glob(files, ".GIF", recursive))

\* ------------------------------------------------------------------ codec
NoImg == [path |-> Path(".", "", ""), nframes |-> 0, tail |-> "EOFError",
          finfo |-> << >>, info |-> << >>, mode |-> "", cursor |-> 0]

\* An info dictionary: a function from some of the keys to values.
Dicts(keys, vals) == UNION { [S -> vals] : S \in SUBSET keys }

\* What a file may decode to.  tail is what a seek to index nframes raises:
\* the end of the frames, or a read error on damaged data.  finfo[k] is the
\* info of frame k-1, info the part of img.info that all frames share.  The
\* pixel mode and the transparency entry are read by the else branch alone and
\* are drawn there (Decoded).
Contents(p) ==
    IF Lower(p.suffix) = ".gif"
    THEN UNION { { [path |-> p, nframes |-> n, tail |-> t, finfo |-> fi,
                    info |-> l, mode |-> "", cursor |-> 0] :
                     t \in {"EOFError", "OSError"},
                     fi \in [1..n -> Dicts({"duration"}, DurChoices)],
                     l \in Dicts({"loop"}, LoopChoices) } : n \in 1..MaxFrames }
    ELSE { [path |-> p, nframes |-> 1, tail |-> "EOFError",
            finfo |-> << << >> >>, info |-> << >>, mode |-> "", cursor |-> 0] }

\* The handle with the pixel mode and the transparency entry of its first
\* frame, as img.mode and img.info give them.
Decoded(h) ==
    { [h EXCEPT !.mode = m, !.info = @ @@ tr] :
        m \in ModesOf(h.path.suffix), tr \in Dicts({"transparency"}, {0}) }

\* img.seek(n): the cursor moves when frame n exists and stays otherwise.
Seek(h, n) ==
    IF n < h.nframes THEN [img |-> [h EXCEPT !.cursor = n], exc |-> "none"]
    ELSE [img |-> h, exc |-> h.tail]

Duration_NoDefault(h) ==
    LET d == h.finfo[h.cursor + 1]
    IN IF "duration" \in DOMAIN d THEN d["duration"] ELSE 0

\* img.info.get("duration", 100) at the current frame
Duration(h) ==
    LET d == h.finfo[h.cursor + 1]
    IN IF "duration" \in DOMAIN d THEN d["duration"] ELSE 100

\* img.info.get("loop", 0)
Loop(h) == IF "loop" \in DOMAIN h.info THEN h.info["loop"] ELSE 0

is_animated_gif_NoRewind(h) ==
    LET probe == Seek(h, 1)
    IN [img |-> probe.img,
        ret |-> probe.exc = "none",
        exc |-> IF probe.exc = "EOFError" THEN "none" ELSE probe.exc]

\* is_animated_gif: try seek(1), finally seek(0).  An EOFError is caught and
\* answered False; any other exception leaves through the finally clause.
is_animated_gif(h) ==
    LET probe == Seek(h, 1)
        rewind == Seek(probe.img, 0)
    IN [img |-> rewind.img,
        ret |-> probe.exc = "none",
        exc |-> IF rewind.exc # "none" THEN rewind.exc
                ELSE IF probe.exc = "EOFError" THEN "none" ELSE probe.exc]

\* if is_animated and preserve_animation: ... else: ...
Branch_IgnoreDetector(animated, preserve) ==
    IF preserve THEN "extract" ELSE "static"

Branch(animated, preserve) ==
    IF animated /\ preserve THEN "extract" ELSE "static"

\* The mode the static branch converts to.
StaticMode(prog, h) ==
    IF prog = "gif_to_webp" THEN "RGBA"
    ELSE IF h.mode \in {"RGBA", "LA"}
            \/ (h.mode = "P" /\ "transparency" \in DOMAIN h.info)
         THEN "RGBA"
         ELSE "RGB"

\* output_dir / f"{input_path.stem}.webp"
OutputName(p) == p.stem \o ".webp"

\* An output file: what it holds and the list index of the input it came from.
NoFile == [kind |-> "absent", src |-> 0]
OldFile == [kind |-> "old", src |-> 0]

\* Image.save(output_path, ...).  "ok" writes the file.  "fail_early" raises
\* before the file is opened for writing.  The encoder failing raises after the
\* file was opened "w+b": an existing file is left truncated, a file the call
\* created is removed ("fail_encode_cleanup") or left behind
\* ("fail_encode_left").
SaveOutcomes == {"ok", "fail_early", "fail_encode_cleanup", "fail_encode_left"}

Save(out, name, kind, src, outcome) ==
    CASE outcome = "ok" -> [out EXCEPT ![name] = [kind |-> kind, src |-> src]]
      [] outcome = "fail_early" -> out
      [] outcome = "fail_encode_cleanup" ->
            IF out[name].kind = "absent" THEN out
            ELSE [out EXCEPT ![name] = [kind |-> "truncated", src |-> src]]
      [] OTHER -> [out EXCEPT ![name] = [kind |-> "truncated", src |-> src]]

OutNames == { OutputName(p) : p \in AllPaths }

\* --------------------------------------------------------------- the run
Init ==
    /\ args \in [prog : Programs, preserve_animation : BOOLEAN,
                  delete_original : BOOLEAN]
    /\ fs \in { S \in SUBSET AllPaths : Cardinality(S) <= MaxFiles }
    /\ outputs \in { [n \in OutNames |-> f] : f \in {NoFile, OldFile} }
    /\ image_files = << >>
    /\ pc = "start"
    /\ idx = 0
    /\ img = NoImg
    /\ open_handles = {}
    /\ is_animated = FALSE
    /\ frames = << >>
    /\ durations = << >>
    /\ exc = "none"
    /\ encoded = << >>
    /\ counts = [success |-> 0, error |-> 0, animated |-> 0, static |-> 0]
    /\ attempts = << >>
    /\ succeeded = {}
    /\ failed = {}
    /\ deleted = {}
    /\ warnings = {}
    /\ out_before = outputs

\* main up to the loop: the list is captured; an empty list ends the run.
\* args.type and args.recursive are read here and nowhere else in the run, so
\* they are inputs of this step.
Start ==
    /\ pc = "start"
    /\ \E file_type \in {"gif", "jpg", "png", "all"}, recursive \in BOOLEAN :
          image_files' = IF args.prog = "gif_to_webp"
                         THEN find_gif_files(fs, recursive)
                         ELSE find_image_files(fs, file_type, recursive)
    /\ pc' = IF image_files' = << >> THEN "no_files" ELSE "loop"
    /\ UNCHANGED << args, fs, outputs, idx, img, open_handles, is_animated,
                    frames, durations, exc, encoded, counts, attempts,
                    succeeded, failed, deleted, warnings, out_before >>

\* for image_path in image_files: the next file, or the summary after the last.
ForLoop ==
    /\ pc = "loop"
    /\ IF idx < Len(image_files)
       THEN /\ idx' = idx + 1
            /\ attempts' = Append(attempts, idx + 1)
            /\ out_before' = outputs
            /\ pc' = "open"
       ELSE /\ pc' = "summary"
            /\ UNCHANGED << idx, attempts, out_before >>
    /\ UNCHANGED << args, fs, outputs, image_files, img, open_handles,
                    is_animated, frames, durations, exc, encoded, counts,
                    succeeded, failed, deleted, warnings >>

\* with Image.open(input_path) as img: the handle, or the exception of a file
\* that cannot be opened or identified.
Open ==
    /\ pc = "open"
    /\ \/ /\ \E c \in Contents(image_files[idx]) : img' = c
          /\ open_handles' = open_handles \cup {idx}
          /\ pc' = "detect"
          /\ exc' = "none"
       \/ /\ exc' = "OSError"
          /\ pc' = "except"
          /\ UNCHANGED << img, open_handles >>
    /\ UNCHANGED << args, fs, outputs, image_files, idx, is_animated, frames,
                    durations, encoded, counts, attempts, succeeded, failed,
                    deleted, warnings, out_before >>

\* is_gif / is_animated = is_animated_gif(img)
Detect ==
    /\ pc = "detect"
    /\ LET is_gif == Lower(img.path.suffix) = ".gif"
           r == IF args.prog = "gif_to_webp" \/ is_gif
                THEN is_animated_gif(img)
                ELSE [img |-> img, ret |-> FALSE, exc |-> "none"]
       IN /\ img' = r.img
          /\ is_animated' = r.ret
          /\ exc' = r.exc
          /\ pc' = IF r.exc # "none" THEN "exit"
                   ELSE Branch(r.ret, args.preserve_animation)
    /\ UNCHANGED << args, fs, outputs, image_files, idx, open_handles, frames,
                    durations, encoded, counts, attempts, succeeded, failed,
                    deleted, warnings, out_before >>

\* One turn of the while True loop: convert and copy the frame, record its
\* duration, seek to the next frame.
ExtractStep ==
    /\ pc = "extract"
    /\ frames' = Append(frames, [frame |-> img.cursor, mode |-> "RGBA"])
    /\ durations' = Append(durations, Duration(img))
    /\ LET r == Seek(img, img.cursor + 1)
       IN /\ img' = r.img
          /\ pc' = CASE r.exc = "none" -> "extract"
                     [] r.exc = "EOFError" -> "save_animated"
                     [] OTHER -> "exit"
          /\ exc' = IF r.exc = "EOFError" THEN "none" ELSE r.exc
    /\ UNCHANGED << args, fs, outputs, image_files, idx, open_handles,
                    is_animated, encoded, counts, attempts, succeeded, failed,
                    deleted, warnings, out_before >>

\* frames[0].save(output_path, save_all=True, append_images=frames[1:], ...)
SaveAnimated ==
    /\ pc = "save_animated"
    /\ \E outcome \in SaveOutcomes :
          /\ encoded' = Append(encoded,
                 [kind |-> "animated",
                  frames |-> << Head(frames) >> \o Tail(frames),
                  duration |-> durations, loop |-> Loop(img),
                  outcome |-> outcome])
          /\ outputs' = Save(outputs, OutputName(img.path), "animated", idx,
                             outcome)
          /\ exc' = IF outcome = "ok" THEN "none" ELSE "OSError"
    /\ pc' = "exit"
    /\ UNCHANGED << args, fs, image_files, idx, img, open_handles, is_animated,
                    frames, durations, counts, attempts, succeeded, failed,
                    deleted, warnings, out_before >>

\* The else branch: the colour-mode choice, convert, save.
SaveStatic ==
    /\ pc = "static"
    /\ \E h \in Decoded(img), outcome \in SaveOutcomes :
          /\ img' = h
          /\ encoded' = Append(encoded,
                 [kind |-> "static",
                  frames |-> << [frame |-> h.cursor,
                                 mode |-> StaticMode(args.prog, h)] >>,
                  duration |-> << >>, loop |-> 0, outcome |-> outcome])
          /\ outputs' = Save(outputs, OutputName(h.path), "static", idx,
                             outcome)
          /\ exc' = IF outcome = "ok" THEN "none" ELSE "OSError"
    /\ pc' = "exit"
    /\ UNCHANGED << args, fs, image_files, idx, open_handles, is_animated,
                    frames, durations, counts, attempts, succeeded, failed,
                    deleted, warnings, out_before >>

WithExit_LeakOnError ==
    /\ pc = "exit"
    /\ open_handles' = IF exc = "none" THEN open_handles \ {idx} ELSE open_handles
    /\ pc' = IF exc = "none" THEN "returned" ELSE "except"
    /\ UNCHANGED << args, fs, outputs, image_files, idx, img, is_animated,
                    frames, durations, exc, encoded, counts, attempts,
                    succeeded, failed, deleted, warnings, out_before >>

\* The end of the with block, by return or by exception: the handle is closed.
WithExit ==
    /\ pc = "exit"
    /\ open_handles' = open_handles \ {idx}
    /\ pc' = IF exc = "none" THEN "returned" ELSE "except"
    /\ UNCHANGED << args, fs, outputs, image_files, idx, img, is_animated,
                    frames, durations, exc, encoded, counts, attempts,
                    succeeded, failed, deleted, warnings, out_before >>

\* The conversion returned (output_path, is_animated); its locals are gone.
\* The counters.
Returned ==
    /\ pc = "returned"
    /\ counts' = [counts EXCEPT
                    !.success = @ + 1,
                    !.animated = IF is_animated THEN @ + 1 ELSE @,
                    !.static = IF is_animated THEN @ ELSE @ + 1]
    /\ succeeded' = succeeded \cup {idx}
    /\ img' = NoImg
    /\ is_animated' = FALSE
    /\ frames' = << >>
    /\ durations' = << >>
    /\ encoded' = << >>
    /\ pc' = IF args.delete_original THEN "unlink" ELSE "loop"
    /\ UNCHANGED << args, fs, outputs, image_files, idx, open_handles, exc,
                    attempts, failed, deleted, warnings, out_before >>

Unlink_FailureCounted ==
    /\ pc = "unlink"
    /\ \/ /\ fs' = fs \ {image_files[idx]}
          /\ deleted' = deleted \cup {idx}
          /\ UNCHANGED << warnings, counts >>
       \/ /\ warnings' = warnings \cup {idx}
          /\ counts' = [counts EXCEPT !.error = @ + 1]
          /\ UNCHANGED << fs, deleted >>
    /\ pc' = "loop"
    /\ UNCHANGED << args, outputs, image_files, idx, img, open_handles,
                    is_animated, frames, durations, exc, encoded,
                    attempts, succeeded, failed, out_before >>

\* image_path.unlink() in its own try: removed, or a warning.
Unlink ==
    /\ pc = "unlink"
    /\ \/ /\ fs' = fs \ {image_files[idx]}
          /\ deleted' = deleted \cup {idx}
          /\ UNCHANGED warnings
       \/ /\ warnings' = warnings \cup {idx}
          /\ UNCHANGED << fs, deleted >>
    /\ pc' = "loop"
    /\ UNCHANGED << args, outputs, image_files, idx, img, open_handles,
                    is_animated, frames, durations, exc, encoded, counts,
                    attempts, succeeded, failed, out_before >>

Except_Abort ==
    /\ pc = "except"
    /\ counts' = [counts EXCEPT !.error = @ + 1]
    /\ failed' = failed \cup {idx}
    /\ exc' = "none"
    /\ img' = NoImg
    /\ is_animated' = FALSE
    /\ frames' = << >>
    /\ durations' = << >>
    /\ encoded' = << >>
    /\ pc' = "summary"
    /\ UNCHANGED << args, fs, outputs, image_files, idx, open_handles,
                    attempts, succeeded, deleted, warnings, out_before >>

\* except Exception as e: the conversion's locals are gone; the error is
\* printed and counted.
Except ==
    /\ pc = "except"
    /\ counts' = [counts EXCEPT !.error = @ + 1]
    /\ failed' = failed \cup {idx}
    /\ exc' = "none"
    /\ img' = NoImg
    /\ is_animated' = FALSE
    /\ frames' = << >>
    /\ durations' = << >>
    /\ encoded' = << >>
    /\ pc' = "loop"
    /\ UNCHANGED << args, fs, outputs, image_files, idx, open_handles,
                    attempts, succeeded, deleted, warnings, out_before >>

Next ==
    \/ Start
    \/ ForLoop
    \/ Open
    \/ Detect
    \/ ExtractStep
    \/ SaveAnimated
    \/ SaveStatic
    \/ WithExit
    \/ Returned
    \/ Unlink
    \/ Except

Spec == Init /\ [][Next]_vars

\* ----------------------------------------------------------------- claims
IsGif(h) == Lower(h.path.suffix) = ".gif"

\* The duration the container gives for frame k-1, 100 when it gives none.
SourceDuration(h, k) ==
    IF "duration" \in DOMAIN h.finfo[k] THEN h.finfo[k]["duration"] ELSE 100

\* The loop count the container gives, 0 when it gives none.
SourceLoop(h) == IF "loop" \in DOMAIN h.info THEN h.info["loop"] ELSE 0

\* C1: a GIF with N >= 2 frames converted with preserve_animation hands the
\* animated encoder, in one call, the N frames in source order (frame i of the
\* call is source frame i, starting at frame 0), the list of their durations
\* (100 where the source gives none) and the source's loop count (0 where it
\* gives none).
C1_AnimationPreserved ==
    (pc = "returned" /\ IsGif(img) /\ img.nframes >= 2
        /\ args.preserve_animation)
    => /\ Len(encoded) = 1
       /\ encoded[1].kind = "animated"
       /\ encoded[1].frames =
             [k \in 1..img.nframes |-> [frame |-> k - 1, mode |-> "RGBA"]]
       /\ encoded[1].duration =
             [k \in 1..img.nframes |-> SourceDuration(img, k)]
       /\ encoded[1].loop = SourceLoop(img)

\* The 3-frame GIF with durations 100 (by default), 150, 100 (by default) and no
\* loop count has been converted.
C1_Witness ==
    /\ pc = "returned"
    /\ IsGif(img) /\ img.nframes = 3 /\ args.preserve_animation
    /\ encoded[1].duration = << 100, 150, 100 >>
    /\ encoded[1].loop = 0

\* C2: a multi-frame GIF converted with preserve_animation = false gets one
\* static encode of one frame, source frame 0, the cursor being at 0 when the
\* frame is converted, and is_animated is returned true.
C2_FlattenedFirstFrame ==
    (IsGif(img) /\ img.nframes >= 2 /\ ~args.preserve_animation)
    => /\ pc = "static" => (img.cursor = 0 /\ is_animated)
       /\ pc = "returned" =>
            /\ Len(encoded) = 1
            /\ encoded[1].kind = "static"
            /\ Len(encoded[1].frames) = 1
            /\ encoded[1].frames[1].frame = 0
            /\ is_animated

C2_Witness ==
    /\ pc = "returned"
    /\ IsGif(img) /\ img.nframes = MaxFrames /\ ~args.preserve_animation
    /\ is_animated
    /\ encoded[1].kind = "static"

\* C3: a single-frame input gets exactly one static encode and is_animated =
\* false; and once is_animated is false the cursor stays at frame 0 and no frame
\* is extracted.
C3_StaticSingleFrame ==
    /\ (pc = "returned" /\ img.nframes = 1)
       => /\ Len(encoded) = 1
          /\ encoded[1].kind = "static"
          /\ Len(encoded[1].frames) = 1
          /\ encoded[1].frames[1].frame = 0
          /\ ~is_animated
    /\ (pc \in {"extract", "save_animated", "static", "exit", "returned", "except"}
          /\ ~is_animated)
       => (img.cursor = 0 /\ frames = << >>)

C3_Witness ==
    /\ pc = "returned"
    /\ IsGif(img) /\ img.nframes = 1
    /\ args.preserve_animation
    /\ encoded[1].kind = "static"

\* C4: is_animated_gif leaves the cursor at frame 0 whatever the probe seek did,
\* from every position of the cursor; a second call on the handle it leaves
\* answers the same and leaves the same cursor; and the answer the conversion
\* got is the one a call on the handle it holds gives, with the cursor at 0.
C4_DetectorRestoresCursor ==
    img # NoImg =>
       LET first == is_animated_gif(img)
           second == is_animated_gif(first.img)
       IN /\ first.img.cursor = 0
          /\ second.img.cursor = 0
          /\ second.ret = first.ret
          /\ second.exc = first.exc
          /\ first.ret = (img.nframes >= 2)
          /\ (pc \in {"static", "save_animated"} /\ IsGif(img))
             => (is_animated = first.ret)
          /\ (pc = "static" \/ (pc = "extract" /\ frames = << >>))
             => img.cursor = 0

\* The probe succeeded and the cursor is back at frame 0.
C4_Witness ==
    /\ pc = "static"
    /\ IsGif(img) /\ is_animated /\ img.cursor = 0
    /\ img.nframes = 2

\* C5 (the claim as stated): every frame of a GIF is converted to RGBA, as is
\* a PNG of mode RGBA or LA and a PNG with a palette and a transparency entry;
\* every JPEG frame and a PNG without transparency are converted to RGB.
C5_ColorModeChoice ==
    \A c \in 1..Len(encoded) : \A f \in 1..Len(encoded[c].frames) :
        LET m == encoded[c].frames[f].mode
            alpha == img.mode \in {"RGBA", "LA"}
            palette_transparency ==
                img.mode = "P" /\ "transparency" \in DOMAIN img.info
            no_transparency ==
                ~alpha /\ "transparency" \notin DOMAIN img.info
        IN /\ IsGif(img) => m = "RGBA"
           /\ (img.path.suffix = ".png" /\ (alpha \/ palette_transparency))
              => m = "RGBA"
           /\ img.path.suffix = ".jpg" => m = "RGB"
           /\ (img.path.suffix = ".png" /\ no_transparency) => m = "RGB"

\* C6: the batch loop hands the files of the captured list to the converter
\* once each and in list order, a failure is counted for its own file only, and
\* the run cannot stop before the summary.
C6_BatchContinues ==
    /\ Len(attempts) = idx
    /\ \A k \in 1..Len(attempts) : attempts[k] = k
    /\ idx <= Len(image_files)
    /\ succeeded \cap failed = {}
    /\ counts.error = Cardinality(failed)
    /\ pc = "summary" =>
          /\ Len(attempts) = Len(image_files)
          /\ succeeded \cup failed = 1..Len(image_files)
    /\ pc \notin {"summary", "no_files"} => ENABLED Next

\* The first file failed, and the second was still converted.
C6_Witness ==
    /\ pc = "summary"
    /\ failed = {1}
    /\ succeeded = {2}

\* C7 (the claim as stated): a conversion that fails leaves the output
\* directory as it was when the conversion began.
C7_FailureHasNoSideEffect ==
    pc = "except" => outputs = out_before

\* C8: at most one handle is open, it is the handle of the conversion in
\* progress, and none is open outside the with block: not after a return, not
\* after a failure, not when the next conversion starts.
C8_HandleReleased ==
    /\ Cardinality(open_handles) <= 1
    /\ open_handles \subseteq {idx}
    /\ pc \in {"start", "loop", "open", "returned", "except", "unlink",
               "summary", "no_files"}
       => open_handles = {}

\* A failure during the extraction of frames, and the handle is closed.
C8_Witness ==
    /\ pc = "except"
    /\ frames # << >>
    /\ encoded = << >>
    /\ open_handles = {}

\* C9: an original is removed only with delete-original set and only after its
\* own conversion succeeded; a failed removal is a warning that leaves both
\* counters as the conversions set them.
C9_DeleteOnlyAfterSuccess ==
    /\ deleted \subseteq succeeded
    /\ warnings \subseteq succeeded
    /\ \A k \in 1..Len(image_files) :
          (image_files[k] \notin fs)
          => (k \in succeeded /\ k \in deleted /\ args.delete_original)
    /\ counts.success = Cardinality(succeeded)
    /\ counts.error = Cardinality(failed)
    /\ counts.success = counts.animated + counts.static

\* A removal failed for a file and the run ended without an error counted.
C9_Witness ==
    /\ pc = "summary"
    /\ 1 \in warnings
    /\ 2 \in deleted
    /\ counts.error = 0
    /\ counts.success = 2

\* C10 (the claim as stated, for the runs in which no conversion failed): at
\* the end of the run the output of every input counted as a success holds
\* that input's own conversion.
C10_NoOutputCollision ==
    (pc = "summary" /\ failed = {})
    => \A k \in succeeded :
          outputs[OutputName(image_files[k])].src = k

====
